---- MODULE Spec2Model ----
(***************************************************************************)
(* Model of app/models.py of prompt-manager-ai: the SQLModel table classes *)
(* (User, Category, PromptTemplate, UserFavorite, PromptGeneration), the   *)
(* request shapes built on them, the field validation their Field(...)     *)
(* declarations ask for, and the relational store the table classes        *)
(* materialise (primary keys, unique columns, foreign keys, NOT NULL).     *)
(*                                                                         *)
(* A class is modelled as the record of its Field(...) declarations, a     *)
(* value as a tagged record, a str as the sequence of its characters.      *)
(***************************************************************************)
EXTENDS Integers, Sequences, FiniteSets, TLC

VARIABLES
    users,        \* table "users": id -> row
    categories,   \* table "categories": id -> row
    templates,    \* table "prompt_templates": id -> row
    favorites,    \* table "user_favorites": id -> row
    generations,  \* table "prompt_generations": id -> row
    last,         \* the outcome of the last store operation
    shape,        \* name of the class last constructed from a payload
    payload,      \* the payload it was constructed from
    outcome       \* the constructed object, or the validation error

vars == <<users, categories, templates, favorites, generations, last,
          shape, payload, outcome>>

storeVars == <<users, categories, templates, favorites, generations, last>>
shapeVars == <<shape, payload, outcome>>

----------------------------------------------------------------------------
(* Values *)

None == [t |-> "None"]
Str(s) == [t |-> "str", v |-> s]
IntV(n) == [t |-> "int", v |-> n]
BoolV(b) == [t |-> "bool", v |-> b]
ListV(l) == [t |-> "list", v |-> l]
DictV(d) == [t |-> "dict", v |-> d]
DateTime(n) == [t |-> "datetime", v |-> n]
\* Decimal: its digits (as_tuple().digits) and the number of them after the
\* point (-as_tuple().exponent, here never negative)
DecimalV(digits, places) == [t |-> "Decimal", v |-> digits, places |-> places]

Rep(c, n) == [i \in 1..n |-> c]

Lower == {"a","b","c","d","e","f","g","h","i","j","k","l","m",
          "n","o","p","q","r","s","t","u","v","w","x","y","z"}
Upper == {"A","B","C","D","E","F","G","H","I","J","K","L","M",
          "N","O","P","Q","R","S","T","U","V","W","X","Y","Z"}
Digit == {"0","1","2","3","4","5","6","7","8","9"}

----------------------------------------------------------------------------
(* Regular expressions of the form ^ item item ... $, an item being a      *)
(* character class repeated exactly n times, or n times or more.           *)

Times(cls, n) == [cls |-> cls, n |-> n, more |-> FALSE]
One(cls) == Times(cls, 1)
Plus(cls) == [cls |-> cls, n |-> 1, more |-> TRUE]

Least(S) == CHOOSE x \in S : \A y \in S : x <= y

\* the first position from p on that holds no character of cls
RunEnd(s, cls, p) ==
    LET bad == {q \in p..Len(s) : s[q] \notin cls}
    IN  IF bad = {} THEN Len(s) + 1 ELSE Least(bad)

\* the positions at which a match of item that starts at p can end
Advance(s, item, p) ==
    LET stop == RunEnd(s, item.cls, p)
    IN  IF item.more THEN (p + item.n)..stop
        ELSE IF p + item.n <= stop THEN {p + item.n} ELSE {}

RECURSIVE Positions(_, _, _)
Positions(regex, s, k) ==
    IF k = 0 THEN {1}
    ELSE UNION {Advance(s, regex[k], p) : p \in Positions(regex, s, k - 1)}

\* $ of a Python pattern: the end of the string, or just before a newline
\* that ends the string
AtDollar(s, p) ==
    \/ p = Len(s) + 1
    \/ p = Len(s) /\ s[p] = "\n"

ReMatch(regex, s) == \E p \in Positions(regex, s, Len(regex)) : AtDollar(s, p)

----------------------------------------------------------------------------
(* The classes: one record per class, one entry per field, holding the     *)
(* annotation (type, optional) and the arguments of Field(...).            *)

\* Persistent models (stored in database)
User == [
    id             |-> [type |-> "int", optional |-> TRUE, default |-> None,
                        primary_key |-> TRUE],
    username       |-> [type |-> "str", optional |-> FALSE, unique |-> TRUE,
                        max_length |-> 50,
                        regex |-> <<Plus(Lower \cup Upper \cup Digit \cup {"_", "-"})>>],
    email          |-> [type |-> "str", optional |-> FALSE, unique |-> TRUE,
                        max_length |-> 255,
                        regex |-> <<Plus(Lower \cup Upper \cup Digit \cup {"_", ".", "+", "-"}),
                                    One({"@"}),
                                    Plus(Lower \cup Upper \cup Digit \cup {"-"}),
                                    One({"."}),
                                    Plus(Lower \cup Upper \cup Digit \cup {"-", "."})>>],
    password_hash  |-> [type |-> "str", optional |-> FALSE, max_length |-> 255],
    full_name      |-> [type |-> "str", optional |-> FALSE, max_length |-> 200],
    is_active      |-> [type |-> "bool", optional |-> FALSE, default |-> BoolV(TRUE)],
    openai_api_key |-> [type |-> "str", optional |-> TRUE, default |-> None,
                        max_length |-> 255],
    created_at     |-> [type |-> "datetime", optional |-> FALSE,
                        default_factory |-> "utcnow"],
    updated_at     |-> [type |-> "datetime", optional |-> FALSE,
                        default_factory |-> "utcnow"] ]

\* Category with a color pattern that leaves out the lower-case digits
Category_UpperHexOnly == [
    id          |-> [type |-> "int", optional |-> TRUE, default |-> None,
                     primary_key |-> TRUE],
    name        |-> [type |-> "str", optional |-> FALSE, unique |-> TRUE,
                     max_length |-> 100],
    description |-> [type |-> "str", optional |-> TRUE, default |-> None,
                     max_length |-> 500],
    color       |-> [type |-> "str", optional |-> FALSE,
                     default |-> Str(<<"#", "3", "B", "8", "2", "F", "6">>),
                     max_length |-> 7,
                     regex |-> <<One({"#"}),
                                 Times(Digit \cup {"A", "B", "C", "D", "E", "F"}, 6)>>],
    created_at  |-> [type |-> "datetime", optional |-> FALSE,
                     default_factory |-> "utcnow"] ]

Category == [
    id          |-> [type |-> "int", optional |-> TRUE, default |-> None,
                     primary_key |-> TRUE],
    name        |-> [type |-> "str", optional |-> FALSE, unique |-> TRUE,
                     max_length |-> 100],
    description |-> [type |-> "str", optional |-> TRUE, default |-> None,
                     max_length |-> 500],
    color       |-> [type |-> "str", optional |-> FALSE,
                     default |-> Str(<<"#", "3", "B", "8", "2", "F", "6">>),
                     max_length |-> 7,
                     regex |-> <<One({"#"}),
                                 Times(Digit \cup {"A", "B", "C", "D", "E", "F"}
                                             \cup {"a", "b", "c", "d", "e", "f"}, 6)>>],
    created_at  |-> [type |-> "datetime", optional |-> FALSE,
                     default_factory |-> "utcnow"] ]

PromptTemplate == [
    id          |-> [type |-> "int", optional |-> TRUE, default |-> None,
                     primary_key |-> TRUE],
    title       |-> [type |-> "str", optional |-> FALSE, max_length |-> 200],
    description |-> [type |-> "str", optional |-> TRUE, default |-> None,
                     max_length |-> 1000],
    content     |-> [type |-> "str", optional |-> FALSE, max_length |-> 10000],
    keywords    |-> [type |-> "list", items |-> "str", optional |-> FALSE,
                     default |-> ListV(<<>>)],
    parameters  |-> [type |-> "list", items |-> "dict", optional |-> FALSE,
                     default |-> ListV(<<>>)],
    is_public   |-> [type |-> "bool", optional |-> FALSE, default |-> BoolV(FALSE)],
    is_active   |-> [type |-> "bool", optional |-> FALSE, default |-> BoolV(TRUE)],
    usage_count |-> [type |-> "int", optional |-> FALSE, default |-> IntV(0)],
    user_id     |-> [type |-> "int", optional |-> FALSE, foreign_key |-> "users"],
    category_id |-> [type |-> "int", optional |-> TRUE, default |-> None,
                     foreign_key |-> "categories"],
    created_at  |-> [type |-> "datetime", optional |-> FALSE,
                     default_factory |-> "utcnow"],
    updated_at  |-> [type |-> "datetime", optional |-> FALSE,
                     default_factory |-> "utcnow"] ]

UserFavorite == [
    id                 |-> [type |-> "int", optional |-> TRUE, default |-> None,
                            primary_key |-> TRUE],
    user_id            |-> [type |-> "int", optional |-> FALSE,
                            foreign_key |-> "users"],
    prompt_template_id |-> [type |-> "int", optional |-> FALSE,
                            foreign_key |-> "prompt_templates"],
    created_at         |-> [type |-> "datetime", optional |-> FALSE,
                            default_factory |-> "utcnow"] ]

PromptGeneration == [
    id                 |-> [type |-> "int", optional |-> TRUE, default |-> None,
                            primary_key |-> TRUE],
    user_id            |-> [type |-> "int", optional |-> FALSE,
                            foreign_key |-> "users"],
    prompt_template_id |-> [type |-> "int", optional |-> FALSE,
                            foreign_key |-> "prompt_templates"],
    input_parameters   |-> [type |-> "dict", optional |-> FALSE,
                            default |-> DictV(<<>>)],
    generated_prompt   |-> [type |-> "str", optional |-> FALSE, max_length |-> 15000],
    openai_response    |-> [type |-> "str", optional |-> TRUE, default |-> None,
                            max_length |-> 50000],
    openai_model       |-> [type |-> "str", optional |-> FALSE,
                            default |-> Str(<<"g", "p", "t", "-", "3", ".", "5", "-",
                                              "t", "u", "r", "b", "o">>),
                            max_length |-> 50],
    tokens_used        |-> [type |-> "int", optional |-> TRUE, default |-> None],
    cost               |-> [type |-> "Decimal", optional |-> TRUE,
                            default |-> DecimalV(<<0>>, 0),
                            decimal_places |-> 6, max_digits |-> 10],
    status             |-> [type |-> "str", optional |-> FALSE,
                            default |-> Str(<<"p", "e", "n", "d", "i", "n", "g">>),
                            max_length |-> 20],
    error_message      |-> [type |-> "str", optional |-> TRUE, default |-> None,
                            max_length |-> 1000],
    created_at         |-> [type |-> "datetime", optional |-> FALSE,
                            default_factory |-> "utcnow"],
    completed_at       |-> [type |-> "datetime", optional |-> TRUE, default |-> None] ]

\* Non-persistent schemas (for validation, forms, API requests/responses)
\* UserCreate with the password's minimum length set to 6
UserCreate_ShortPassword == [
    username  |-> [type |-> "str", optional |-> FALSE, max_length |-> 50,
                   regex |-> <<Plus(Lower \cup Upper \cup Digit \cup {"_", "-"})>>],
    email     |-> [type |-> "str", optional |-> FALSE, max_length |-> 255,
                   regex |-> <<Plus(Lower \cup Upper \cup Digit \cup {"_", ".", "+", "-"}),
                               One({"@"}),
                               Plus(Lower \cup Upper \cup Digit \cup {"-"}),
                               One({"."}),
                               Plus(Lower \cup Upper \cup Digit \cup {"-", "."})>>],
    password  |-> [type |-> "str", optional |-> FALSE, min_length |-> 6,
                   max_length |-> 100],
    full_name |-> [type |-> "str", optional |-> FALSE, max_length |-> 200] ]

UserCreate == [
    username  |-> [type |-> "str", optional |-> FALSE, max_length |-> 50,
                   regex |-> <<Plus(Lower \cup Upper \cup Digit \cup {"_", "-"})>>],
    email     |-> [type |-> "str", optional |-> FALSE, max_length |-> 255,
                   regex |-> <<Plus(Lower \cup Upper \cup Digit \cup {"_", ".", "+", "-"}),
                               One({"@"}),
                               Plus(Lower \cup Upper \cup Digit \cup {"-"}),
                               One({"."}),
                               Plus(Lower \cup Upper \cup Digit \cup {"-", "."})>>],
    password  |-> [type |-> "str", optional |-> FALSE, min_length |-> 8,
                   max_length |-> 100],
    full_name |-> [type |-> "str", optional |-> FALSE, max_length |-> 200] ]

UserUpdate == [
    email          |-> [type |-> "str", optional |-> TRUE, default |-> None,
                        max_length |-> 255,
                        regex |-> <<Plus(Lower \cup Upper \cup Digit \cup {"_", ".", "+", "-"}),
                                    One({"@"}),
                                    Plus(Lower \cup Upper \cup Digit \cup {"-"}),
                                    One({"."}),
                                    Plus(Lower \cup Upper \cup Digit \cup {"-", "."})>>],
    full_name      |-> [type |-> "str", optional |-> TRUE, default |-> None,
                        max_length |-> 200],
    openai_api_key |-> [type |-> "str", optional |-> TRUE, default |-> None,
                        max_length |-> 255] ]

\* CategoryCreate with the name's length limit of UserCreate.username
CategoryCreate_ShortName == [
    name        |-> [type |-> "str", optional |-> FALSE, max_length |-> 50],
    description |-> [type |-> "str", optional |-> TRUE, default |-> None,
                     max_length |-> 500],
    color       |-> [type |-> "str", optional |-> FALSE,
                     default |-> Str(<<"#", "3", "B", "8", "2", "F", "6">>),
                     max_length |-> 7,
                     regex |-> <<One({"#"}),
                                 Times(Digit \cup {"A", "B", "C", "D", "E", "F"}
                                             \cup {"a", "b", "c", "d", "e", "f"}, 6)>>] ]

CategoryCreate == [
    name        |-> [type |-> "str", optional |-> FALSE, max_length |-> 100],
    description |-> [type |-> "str", optional |-> TRUE, default |-> None,
                     max_length |-> 500],
    color       |-> [type |-> "str", optional |-> FALSE,
                     default |-> Str(<<"#", "3", "B", "8", "2", "F", "6">>),
                     max_length |-> 7,
                     regex |-> <<One({"#"}),
                                 Times(Digit \cup {"A", "B", "C", "D", "E", "F"}
                                             \cup {"a", "b", "c", "d", "e", "f"}, 6)>>] ]

CategoryUpdate == [
    name        |-> [type |-> "str", optional |-> TRUE, default |-> None,
                     max_length |-> 100],
    description |-> [type |-> "str", optional |-> TRUE, default |-> None,
                     max_length |-> 500],
    color       |-> [type |-> "str", optional |-> TRUE, default |-> None,
                     max_length |-> 7,
                     regex |-> <<One({"#"}),
                                 Times(Digit \cup {"A", "B", "C", "D", "E", "F"}
                                             \cup {"a", "b", "c", "d", "e", "f"}, 6)>>] ]

PromptTemplateCreate == [
    title       |-> [type |-> "str", optional |-> FALSE, max_length |-> 200],
    description |-> [type |-> "str", optional |-> TRUE, default |-> None,
                     max_length |-> 1000],
    content     |-> [type |-> "str", optional |-> FALSE, max_length |-> 10000],
    keywords    |-> [type |-> "list", items |-> "str", optional |-> FALSE,
                     default |-> ListV(<<>>)],
    parameters  |-> [type |-> "list", items |-> "dict", optional |-> FALSE,
                     default |-> ListV(<<>>)],
    is_public   |-> [type |-> "bool", optional |-> FALSE, default |-> BoolV(FALSE)],
    category_id |-> [type |-> "int", optional |-> TRUE, default |-> None] ]

PromptTemplateUpdate == [
    title       |-> [type |-> "str", optional |-> TRUE, default |-> None,
                     max_length |-> 200],
    description |-> [type |-> "str", optional |-> TRUE, default |-> None,
                     max_length |-> 1000],
    content     |-> [type |-> "str", optional |-> TRUE, default |-> None,
                     max_length |-> 10000],
    keywords    |-> [type |-> "list", items |-> "str", optional |-> TRUE,
                     default |-> None],
    parameters  |-> [type |-> "list", items |-> "dict", optional |-> TRUE,
                     default |-> None],
    is_public   |-> [type |-> "bool", optional |-> TRUE, default |-> None],
    is_active   |-> [type |-> "bool", optional |-> TRUE, default |-> None],
    category_id |-> [type |-> "int", optional |-> TRUE, default |-> None] ]

PromptGenerationCreate == [
    prompt_template_id |-> [type |-> "int", optional |-> FALSE],
    input_parameters   |-> [type |-> "dict", optional |-> FALSE,
                            default |-> DictV(<<>>)],
    openai_model       |-> [type |-> "str", optional |-> FALSE,
                            default |-> Str(<<"g", "p", "t", "-", "3", ".", "5", "-",
                                              "t", "u", "r", "b", "o">>),
                            max_length |-> 50] ]

\* PromptGenerationUpdate, were the owner and the template declared in it
PromptGenerationUpdate_WithOwner == [
    user_id         |-> [type |-> "int", optional |-> TRUE, default |-> None],
    prompt_template_id |-> [type |-> "int", optional |-> TRUE, default |-> None],
    openai_response |-> [type |-> "str", optional |-> TRUE, default |-> None,
                         max_length |-> 50000],
    tokens_used     |-> [type |-> "int", optional |-> TRUE, default |-> None],
    cost            |-> [type |-> "Decimal", optional |-> TRUE, default |-> None,
                         decimal_places |-> 6, max_digits |-> 10],
    status          |-> [type |-> "str", optional |-> TRUE, default |-> None,
                         max_length |-> 20],
    error_message   |-> [type |-> "str", optional |-> TRUE, default |-> None,
                         max_length |-> 1000],
    completed_at    |-> [type |-> "datetime", optional |-> TRUE, default |-> None] ]

PromptGenerationUpdate == [
    openai_response |-> [type |-> "str", optional |-> TRUE, default |-> None,
                         max_length |-> 50000],
    tokens_used     |-> [type |-> "int", optional |-> TRUE, default |-> None],
    cost            |-> [type |-> "Decimal", optional |-> TRUE, default |-> None,
                         decimal_places |-> 6, max_digits |-> 10],
    status          |-> [type |-> "str", optional |-> TRUE, default |-> None,
                         max_length |-> 20],
    error_message   |-> [type |-> "str", optional |-> TRUE, default |-> None,
                         max_length |-> 1000],
    completed_at    |-> [type |-> "datetime", optional |-> TRUE, default |-> None] ]

\* Search and filter schemas
\* PromptTemplateSearch with limit allowed from 0
PromptTemplateSearch_LimitFromZero == [
    query       |-> [type |-> "str", optional |-> TRUE, default |-> None,
                     max_length |-> 200],
    category_id |-> [type |-> "int", optional |-> TRUE, default |-> None],
    keywords    |-> [type |-> "list", items |-> "str", optional |-> TRUE,
                     default |-> None],
    user_id     |-> [type |-> "int", optional |-> TRUE, default |-> None],
    is_public   |-> [type |-> "bool", optional |-> TRUE, default |-> None],
    is_active   |-> [type |-> "bool", optional |-> TRUE, default |-> None],
    limit       |-> [type |-> "int", optional |-> FALSE, default |-> IntV(20),
                     ge |-> 0, le |-> 100],
    offset      |-> [type |-> "int", optional |-> FALSE, default |-> IntV(0),
                     ge |-> 0] ]

PromptTemplateSearch == [
    query       |-> [type |-> "str", optional |-> TRUE, default |-> None,
                     max_length |-> 200],
    category_id |-> [type |-> "int", optional |-> TRUE, default |-> None],
    keywords    |-> [type |-> "list", items |-> "str", optional |-> TRUE,
                     default |-> None],
    user_id     |-> [type |-> "int", optional |-> TRUE, default |-> None],
    is_public   |-> [type |-> "bool", optional |-> TRUE, default |-> None],
    is_active   |-> [type |-> "bool", optional |-> TRUE, default |-> None],
    limit       |-> [type |-> "int", optional |-> FALSE, default |-> IntV(20),
                     ge |-> 1, le |-> 100],
    offset      |-> [type |-> "int", optional |-> FALSE, default |-> IntV(0),
                     ge |-> 0] ]

----------------------------------------------------------------------------
(* Validation of a payload against a class *)

Has(f, key) == key \in DOMAIN f

\* the number of digits of a Decimal, as the max_digits check counts them
NDigits(v) == IF v.places > Len(v.v) THEN v.places ELSE Len(v.v)

TypeOK(f, v) ==
    /\ v.t = f.type
    /\ (f.type = "list") => \A i \in 1..Len(v.v) : v.v[i].t = f.items

\* the constraints Field(...) puts on a value of the field's type
ConstraintsOK(f, v) ==
    /\ Has(f, "max_length") => Len(v.v) <= f.max_length
    /\ Has(f, "min_length") => Len(v.v) >= f.min_length
    /\ Has(f, "regex") => ReMatch(f.regex, v.v)
    /\ Has(f, "ge") => v.v >= f.ge
    /\ Has(f, "le") => v.v <= f.le
    /\ Has(f, "decimal_places") => v.places <= f.decimal_places
    /\ Has(f, "max_digits") =>
          /\ NDigits(v) <= f.max_digits
          /\ NDigits(v) - v.places <= f.max_digits - f.decimal_places

\* a value given for field f is accepted
ValidValue(f, v) ==
    IF v = None THEN f.optional
    ELSE TypeOK(f, v) /\ ConstraintsOK(f, v)

HasDefault(f) == Has(f, "default") \/ Has(f, "default_factory")

UtcNow == DateTime(0)

DefaultOf(f) == IF Has(f, "default") THEN f.default ELSE UtcNow

\* the fields of class cls that the payload p (a record of the fields given)
\* gets wrong: a value that is not accepted, or none where one is required.
\* A field of p that cls does not declare is ignored.
Errors(cls, p) ==
    { f \in DOMAIN cls :
        IF f \in DOMAIN p THEN ~ValidValue(cls[f], p[f]) ELSE ~HasDefault(cls[f]) }

Valid(cls, p) == Errors(cls, p) = {}

\* the object built, were every field of the class counted as given
Build_AllFieldsSet(cls, p) ==
    [data |-> [f \in DOMAIN cls |-> IF f \in DOMAIN p THEN p[f] ELSE DefaultOf(cls[f])],
     fields_set |-> DOMAIN cls]

\* the object built from an accepted payload: the fields given, the
\* defaults of the others, and which fields were given
Build(cls, p) ==
    [data |-> [f \in DOMAIN cls |-> IF f \in DOMAIN p THEN p[f] ELSE DefaultOf(cls[f])],
     fields_set |-> DOMAIN p \cap DOMAIN cls]

Construct(cls, p) ==
    IF Valid(cls, p) THEN [ok |-> TRUE, obj |-> Build(cls, p)]
    ELSE [ok |-> FALSE, error |-> "ValidationError", fields |-> Errors(cls, p)]

----------------------------------------------------------------------------
(* Payloads the classes are constructed from *)

Absent == [t |-> "absent"]

\* the payload that gives the fields of p that are not Absent
Given(p) == [f \in {g \in DOMAIN p : p[g] # Absent} |-> p[f]]

\* p without the fields in D
Without(p, D) == [f \in DOMAIN p \ D |-> p[f]]

\* p and q together, q's fields first
Merge(p, q) == [f \in DOMAIN p \cup DOMAIN q |-> IF f \in DOMAIN q THEN q[f] ELSE p[f]]

\* p with field f given as v
With(p, f, v) == Merge(p, [g \in {f} |-> v])

Chars(n) == Str(Rep("a", n))

alice == <<"a", "l", "i", "c", "e">>
alice_email == <<"a", "@", "e", "x", "a", "m", "p", "l", "e", ".", "c", "o", "m">>
bob_email == <<"b", "@", "e", "x", "a", "m", "p", "l", "e", ".", "c", "o", "m">>
longenough1 == <<"l", "o", "n", "g", "e", "n", "o", "u", "g", "h", "1">>
Alice_A == <<"A", "l", "i", "c", "e", " ", "A">>
blue == <<"b", "l", "u", "e">>
color_3b82F6 == <<"#", "3", "b", "8", "2", "F", "6">>
pending == <<"p", "e", "n", "d", "i", "n", "g">>
completed == <<"c", "o", "m", "p", "l", "e", "t", "e", "d">>
failed == <<"f", "a", "i", "l", "e", "d">>

UsernameInputs ==
    { Str(<<>>), Str(alice), Str(<<"A", "l", "i", "c", "e">>),
      Str(<<"a", "_", "b", "-", "9">>), Str(<<"a", "l", " ", "i", "c", "e">>),
      Str(<<"a", ".", "b">>), Str(alice \o <<"\n">>), Str(<<"\n">>),
      Chars(50), Chars(51),
      Str(Rep("a", 49) \o <<"\n">>), Str(Rep("a", 50) \o <<"\n">>) }

EmailInputs ==
    { Str(<<>>), Str(alice_email), Str(<<"a", "@", "b">>), Str(<<"a", "@", "b", ".", "c">>),
      Str(<<"@", "b", ".", "c">>), Str(<<"a", "@", ".", "c">>), Str(<<"a", "@", "b", ".">>),
      Str(<<"a", ".", "b", "+", "c", "@", "d", "-", "e", ".", "f", ".", "g">>),
      Str(<<"a", "@", "b", "_", "c", ".", "d">>), Str(<<"a", "@", "@", "b", ".", "c">>),
      Str(<<"a", "@", "b", ".", "c", "\n">>),
      Str(Rep("a", 251) \o <<"@", "b", ".", "c">>),
      Str(Rep("a", 252) \o <<"@", "b", ".", "c">>) }

PasswordInputs == { Str(longenough1), Chars(0), Chars(7), Chars(8), Chars(100), Chars(101) }

FullNameInputs == { Str(Alice_A), Chars(0), Chars(200), Chars(201) }

UserCreateInputs ==
    [username : UsernameInputs, email : EmailInputs,
     password : PasswordInputs, full_name : FullNameInputs]

\* the password hash is opaque at this layer
Hash(pw) == Str(<<"$", "h", "$">>)

\* the User a UserCreate payload is mapped onto
UserOf(p) == Merge(Without(p, {"password"}), [password_hash |-> Hash(p.password)])

UserInputs == { UserOf(p) : p \in UserCreateInputs }

ApiKeyInputs == { Absent, None, Str(<<"s", "k">>), Chars(255), Chars(256) }

UserUpdateInputs ==
    { Given(p) : p \in [email : {Absent, None} \cup EmailInputs,
                        full_name : {Absent, None} \cup FullNameInputs,
                        openai_api_key : ApiKeyInputs] }

ColorInputs ==
    { Str(blue), Str(color_3b82F6), Str(<<"#", "3", "B", "8", "2", "F", "6">>),
      Str(color_3b82F6 \o <<"\n">>), Str(<<"#", "3", "b", "8", "2", "F">>),
      Str(<<"#", "3", "b", "8", "2", "F", "\n">>),
      Str(color_3b82F6 \o <<"a">>), Str(<<"#", "3", "b", "8", "2", "G", "6">>),
      Str(<<"3", "b", "8", "2", "F", "6", "#">>), Str(<<"#", "0", "0", "0", "0", "0", "0">>),
      Str(<<"#", "f", "f", "f", "f", "f", "f">>), Str(<<>>) }

CategoryCreateInputs ==
    { Given(p) : p \in [name : {Absent, Str(<<"w", "o", "r", "k">>), Chars(0), Chars(100), Chars(101)},
                        description : {Absent, None, Chars(500), Chars(501)},
                        color : {Absent} \cup ColorInputs] }

CategoryInputs == CategoryCreateInputs

CategoryUpdateInputs ==
    { Given(p) : p \in [name : {Absent, None, Str(<<"w", "o", "r", "k">>), Chars(0), Chars(100), Chars(101)},
                        description : {Absent, None, Chars(500), Chars(501)},
                        color : {Absent, None} \cup ColorInputs] }

KeywordsInputs == { Absent, ListV(<<>>), ListV(<<Str(<<"k">>), Str(<<"j">>)>>) }
ParametersInputs == { Absent, ListV(<<DictV(<<<<"name", Str(<<"x">>)>>>>)>>) }

PromptTemplateCreateInputs ==
    { Given(p) : p \in [title : {Absent, Str(<<"T">>), Chars(200), Chars(201)},
                        description : {Absent, None, Chars(1001)},
                        content : {Absent, Str(<<"{", "x", "}">>)},
                        keywords : KeywordsInputs,
                        parameters : ParametersInputs,
                        is_public : {Absent, BoolV(TRUE)},
                        category_id : {Absent, None, IntV(1)}] }
    \cup { [title |-> Str(<<"T">>), content |-> c] : c \in {Chars(10000), Chars(10001)} }
    \cup { [title |-> Str(<<"T">>), content |-> Str(<<"{", "x", "}">>),
            description |-> Chars(1000)] }

\* the PromptTemplate a PromptTemplateCreate payload is mapped onto, for owner u
PromptTemplateOf(p, u) == Merge(p, [user_id |-> IntV(u)])

PromptTemplateInputs == { PromptTemplateOf(p, 1) : p \in PromptTemplateCreateInputs }

PromptTemplateUpdateInputs ==
    { Given(p) : p \in [title : {Absent, None, Chars(200), Chars(201)},
                        description : {Absent, None, Chars(1001)},
                        content : {Absent, None, Str(<<"{", "x", "}">>)},
                        keywords : KeywordsInputs \cup {None},
                        parameters : ParametersInputs,
                        is_public : {Absent, BoolV(TRUE)},
                        is_active : {Absent, None, BoolV(FALSE)},
                        category_id : {Absent, None, IntV(1)}] }
    \cup { [content |-> c] : c \in {Chars(10000), Chars(10001)} }

PromptGenerationCreateInputs ==
    { Given(p) : p \in [prompt_template_id : {Absent, None, IntV(1)},
                        input_parameters : {Absent, DictV(<<<<"x", Str(<<"1">>)>>>>)},
                        openai_model : {Absent, None, Str(<<"g", "p", "t", "-", "4">>),
                                        Chars(0), Chars(50), Chars(51)}] }

\* the PromptGeneration a PromptGenerationCreate payload is mapped onto, for
\* user u and the prompt text after parameter substitution
PromptGenerationOf(p, u, text) ==
    Merge(p, [user_id |-> IntV(u), generated_prompt |-> text])

PromptGenerationInputs ==
    { PromptGenerationOf(p, 1, Str(<<"1">>)) : p \in PromptGenerationCreateInputs }
    \cup { PromptGenerationOf([prompt_template_id |-> IntV(1)], 1, text) :
               text \in {Chars(15000), Chars(15001)} }

PromptGenerationUpdateInputs ==
    { Given(p) : p \in [openai_response : {Absent, None, Str(<<".", ".", ".">>)},
                        tokens_used : {Absent, IntV(42)},
                        cost : {Absent, None, DecimalV(<<1, 5, 0, 0>>, 6), DecimalV(<<1>>, 7),
                                DecimalV(<<1, 2, 3, 4, 5, 6, 7, 8, 9, 0>>, 6),
                                DecimalV(<<1, 2, 3, 4, 5>>, 0),
                                DecimalV(<<1, 2, 3, 4, 5, 6, 7, 8, 9, 0, 1>>, 6)},
                        status : {Absent, None, Str(completed), Str(failed), Str(pending),
                                  Chars(20), Chars(21)},
                        error_message : {Absent, Chars(1001)},
                        completed_at : {Absent, None, DateTime(1)}] }
    \cup { [openai_response |-> r] : r \in {Chars(50000), Chars(50001)} }
    \cup { [error_message |-> Chars(1000)] }

LimitInputs == { Absent, IntV(-1), IntV(0), IntV(1), IntV(20), IntV(50), IntV(100), IntV(101), IntV(1000) }
OffsetInputs == { Absent, IntV(-1), IntV(0), IntV(1), IntV(100), IntV(101), IntV(100000) }

PromptTemplateSearchInputs ==
    { Given(p) : p \in [query : {Absent, None, Chars(0), Chars(200), Chars(201)},
                        category_id : {Absent, IntV(1)},
                        keywords : {Absent, ListV(<<Str(<<"k">>)>>)},
                        user_id : {Absent, IntV(1)},
                        is_public : {Absent, BoolV(TRUE)},
                        is_active : {Absent, None},
                        limit : LimitInputs,
                        offset : OffsetInputs] }

ShapeNames ==
    { "User", "Category", "PromptTemplate", "PromptGeneration",
      "UserCreate", "UserUpdate", "CategoryCreate", "CategoryUpdate",
      "PromptTemplateCreate", "PromptTemplateUpdate",
      "PromptGenerationCreate", "PromptGenerationUpdate", "PromptTemplateSearch" }

ClassOf(name) ==
    CASE name = "User" -> User
      [] name = "Category" -> Category
      [] name = "PromptTemplate" -> PromptTemplate
      [] name = "PromptGeneration" -> PromptGeneration
      [] name = "UserCreate" -> UserCreate
      [] name = "UserUpdate" -> UserUpdate
      [] name = "CategoryCreate" -> CategoryCreate
      [] name = "CategoryUpdate" -> CategoryUpdate
      [] name = "PromptTemplateCreate" -> PromptTemplateCreate
      [] name = "PromptTemplateUpdate" -> PromptTemplateUpdate
      [] name = "PromptGenerationCreate" -> PromptGenerationCreate
      [] name = "PromptGenerationUpdate" -> PromptGenerationUpdate
      [] name = "PromptTemplateSearch" -> PromptTemplateSearch

InputsOf(name) ==
    CASE name = "User" -> UserInputs
      [] name = "Category" -> CategoryInputs
      [] name = "PromptTemplate" -> PromptTemplateInputs
      [] name = "PromptGeneration" -> PromptGenerationInputs
      [] name = "UserCreate" -> UserCreateInputs
      [] name = "UserUpdate" -> UserUpdateInputs
      [] name = "CategoryCreate" -> CategoryCreateInputs
      [] name = "CategoryUpdate" -> CategoryUpdateInputs
      [] name = "PromptTemplateCreate" -> PromptTemplateCreateInputs
      [] name = "PromptTemplateUpdate" -> PromptTemplateUpdateInputs
      [] name = "PromptGenerationCreate" -> PromptGenerationCreateInputs
      [] name = "PromptGenerationUpdate" -> PromptGenerationUpdateInputs
      [] name = "PromptTemplateSearch" -> PromptTemplateSearchInputs

----------------------------------------------------------------------------
(* Constructing a class from a payload *)

NoRows == [i \in {} |-> None]
NoPayload == [f \in {} |-> None]

InitStore ==
    /\ users = NoRows
    /\ categories = NoRows
    /\ templates = NoRows
    /\ favorites = NoRows
    /\ generations = NoRows
    /\ last = "none"

NotConstructed == [ok |-> FALSE, error |-> "none", fields |-> {}]

InitShapes ==
    /\ shape = "none"
    /\ payload = NoPayload
    /\ outcome = NotConstructed

Init == InitStore /\ InitShapes

\* a payload arrives for one of the classes
InitPayload ==
    /\ InitStore
    /\ \E name \in ShapeNames :
          /\ shape = name
          /\ payload \in InputsOf(name)
    /\ outcome = NotConstructed

ConstructShape(name) ==
    /\ shape = name
    /\ outcome = NotConstructed
    /\ outcome' = Construct(ClassOf(name), payload)
    /\ UNCHANGED <<shape, payload>>
    /\ UNCHANGED storeVars

NextShapes == \E name \in ShapeNames : ConstructShape(name)

SpecShapes == InitPayload /\ [][NextShapes]_vars

----------------------------------------------------------------------------
(* The relational store the table classes materialise *)

\* the largest number of rows the store holds, all tables together
MaxRows == 4


Table(name) ==
    CASE name = "users" -> users
      [] name = "categories" -> categories
      [] name = "prompt_templates" -> templates
      [] name = "user_favorites" -> favorites
      [] name = "prompt_generations" -> generations

TotalRows ==
    Cardinality(DOMAIN users) + Cardinality(DOMAIN categories)
    + Cardinality(DOMAIN templates) + Cardinality(DOMAIN favorites)
    + Cardinality(DOMAIN generations)

Greatest(S) == CHOOSE x \in S : \A y \in S : x >= y

\* the id the primary key column gives a new row
NextId(table) == IF DOMAIN table = {} THEN 1 ELSE Greatest(DOMAIN table) + 1

\* the ids a request names: those of the table's rows, and one of no row
IdsOf(table) == DOMAIN table \cup {NextId(table)}

\* the unique columns, were email not declared unique
UniqueFields_UsernameOnly(cls) ==
    {f \in DOMAIN cls : Has(cls[f], "unique") /\ cls[f].unique /\ f # "email"}

\* the foreign keys, were category_id declared a plain column
ForeignKeys_UserOnly(cls) ==
    {f \in DOMAIN cls : Has(cls[f], "foreign_key") /\ f # "category_id"}

\* the columns declared unique=True, foreign_key=..., and NOT NULL
UniqueFields(cls) == {f \in DOMAIN cls : Has(cls[f], "unique") /\ cls[f].unique}
ForeignKeys(cls) == {f \in DOMAIN cls : Has(cls[f], "foreign_key")}
NotNullFields(cls) == {f \in DOMAIN cls : ~cls[f].optional}

\* row, written as row number self of table, repeats a unique value of another row
UniqueViolation(cls, table, row, self) ==
    \E f \in UniqueFields(cls) : \E i \in DOMAIN table \ {self} : table[i][f] = row[f]

\* a foreign key of row references no row of its table
ForeignKeyViolation(cls, row) ==
    \E f \in ForeignKeys(cls) :
        /\ row[f] # None
        /\ row[f].v \notin DOMAIN Table(cls[f].foreign_key)

NotNullViolation(cls, row) == \E f \in NotNullFields(cls) : row[f] = None

\* the outcome of writing row as row number self of table (0: a new row)
StoreResult(cls, table, row, self) ==
    IF NotNullViolation(cls, row) THEN "IntegrityError"
    ELSE IF UniqueViolation(cls, table, row, self) THEN "ConflictError"
    ELSE IF ForeignKeyViolation(cls, row) THEN "ReferenceError"
    ELSE "ok"

\* the row INSERT stores for the fields given in data
NewRow(cls, table, data) ==
    [Build(cls, data).data EXCEPT !.id = IntV(NextId(table))]

\* the table with row stored under its id
Put(table, row) ==
    [i \in DOMAIN table \cup {row.id.v} |-> IF i = row.id.v THEN row ELSE table[i]]

\* the table without row number i
Remove(table, i) == [j \in DOMAIN table \ {i} |-> table[j]]

\* an update object applied to a row: the fields that were set overwrite
ApplyUpdate(row, obj) ==
    [f \in DOMAIN row |-> IF f \in obj.fields_set THEN obj.data[f] ELSE row[f]]

Done(op, result) == last' = result

\* the outcome of inserting a row with the fields given in data
InsertResult(cls, table, data) ==
    IF ~Valid(cls, data) THEN "ValidationError"
    ELSE StoreResult(cls, table, NewRow(cls, table, data), 0)

\* the outcome of updating row number id of table with the payload p of
\* update class upd
UpdateResult(cls, upd, table, id, p) ==
    IF id \notin DOMAIN table THEN "NotFoundError"
    ELSE IF ~Valid(upd, p) THEN "ValidationError"
    ELSE StoreResult(cls, table, ApplyUpdate(table[id], Build(upd, p)), id)

----------------------------------------------------------------------------
(* Payloads of the store's operations *)

Alice == <<"A", "l", "i", "c", "e">>
work == <<"w", "o", "r", "k">>
play == <<"p", "l", "a", "y">>

StoreUserCreates ==
    { [username |-> Str(alice), email |-> Str(alice_email),
       password |-> Str(longenough1), full_name |-> Str(Alice_A)],
      [username |-> Str(Alice), email |-> Str(bob_email),
       password |-> Str(longenough1), full_name |-> Str(Alice_A)],
      [username |-> Str(<<"a", "l", " ", "i", "c", "e">>), email |-> Str(alice_email),
       password |-> Chars(7), full_name |-> Str(Alice_A)] }

StoreUserUpdates ==
    { [email |-> Str(bob_email), full_name |-> Str(<<>>), openai_api_key |-> None],
      [email |-> None] }

StoreCategoryCreates ==
    { [name |-> Str(work)],
      [name |-> Str(play), color |-> Str(color_3b82F6)] }

StoreCategoryUpdates ==
    { [name |-> Str(play), description |-> None] }

StoreTemplateCreates ==
    { [title |-> Str(<<"T">>), content |-> Str(<<"{", "x", "}">>)],
      [title |-> Str(<<"T">>), content |-> Str(<<"{", "x", "}">>),
       category_id |-> IntV(1)] }

StoreTemplateUpdates ==
    { [category_id |-> IntV(1)],
      [category_id |-> None, user_id |-> IntV(2), usage_count |-> IntV(7)] }

StoreGenerationCreates ==
    { [prompt_template_id |-> IntV(t)] : t \in IdsOf(templates) }

StoreGenerationUpdates ==
    { [status |-> Str(completed), openai_response |-> Str(<<".", ".", ".">>),
       completed_at |-> DateTime(1)],
      [status |-> Str(<<"b", "o", "g", "u", "s">>), error_message |-> None,
       user_id |-> IntV(2), prompt_template_id |-> IntV(2)] }

----------------------------------------------------------------------------
(* The store's operations *)

CreateUser(p) ==
    LET shapeOK == Valid(UserCreate, p)
        result == IF shapeOK THEN InsertResult(User, users, UserOf(p))
                  ELSE "ValidationError"
    IN  /\ TotalRows < MaxRows
        /\ users' = IF result = "ok" THEN Put(users, NewRow(User, users, UserOf(p)))
                    ELSE users
        /\ Done("CreateUser", result)
        /\ UNCHANGED <<categories, templates, favorites, generations>>
        /\ UNCHANGED shapeVars

UpdateUser(id, p) ==
    LET result == UpdateResult(User, UserUpdate, users, id, p)
    IN  /\ users' = IF result = "ok"
                    THEN Put(users, ApplyUpdate(users[id], Build(UserUpdate, p)))
                    ELSE users
        /\ Done("UpdateUser", result)
        /\ UNCHANGED <<categories, templates, favorites, generations>>
        /\ UNCHANGED shapeVars

CreateCategory(p) ==
    LET shapeOK == Valid(CategoryCreate, p)
        result == IF shapeOK THEN InsertResult(Category, categories, p)
                  ELSE "ValidationError"
    IN  /\ TotalRows < MaxRows
        /\ categories' = IF result = "ok"
                         THEN Put(categories, NewRow(Category, categories, p))
                         ELSE categories
        /\ Done("CreateCategory", result)
        /\ UNCHANGED <<users, templates, favorites, generations>>
        /\ UNCHANGED shapeVars

UpdateCategory(id, p) ==
    LET result == UpdateResult(Category, CategoryUpdate, categories, id, p)
    IN  /\ categories' = IF result = "ok"
                         THEN Put(categories,
                                  ApplyUpdate(categories[id], Build(CategoryUpdate, p)))
                         ELSE categories
        /\ Done("UpdateCategory", result)
        /\ UNCHANGED <<users, templates, favorites, generations>>
        /\ UNCHANGED shapeVars

CreateTemplate(u, p) ==
    LET shapeOK == Valid(PromptTemplateCreate, p)
        data == PromptTemplateOf(p, u)
        result == IF shapeOK THEN InsertResult(PromptTemplate, templates, data)
                  ELSE "ValidationError"
    IN  /\ TotalRows < MaxRows
        /\ templates' = IF result = "ok"
                        THEN Put(templates, NewRow(PromptTemplate, templates, data))
                        ELSE templates
        /\ Done("CreateTemplate", result)
        /\ UNCHANGED <<users, categories, favorites, generations>>
        /\ UNCHANGED shapeVars

UpdateTemplate(id, p) ==
    LET result == UpdateResult(PromptTemplate, PromptTemplateUpdate, templates, id, p)
    IN  /\ templates' = IF result = "ok"
                        THEN Put(templates,
                                 ApplyUpdate(templates[id], Build(PromptTemplateUpdate, p)))
                        ELSE templates
        /\ Done("UpdateTemplate", result)
        /\ UNCHANGED <<users, categories, favorites, generations>>
        /\ UNCHANGED shapeVars

CreateFavorite(u, t) ==
    LET data == [user_id |-> IntV(u), prompt_template_id |-> IntV(t)]
        result == InsertResult(UserFavorite, favorites, data)
    IN  /\ TotalRows < MaxRows
        /\ NextId(favorites) <= MaxRows
        /\ favorites' = IF result = "ok"
                        THEN Put(favorites, NewRow(UserFavorite, favorites, data))
                        ELSE favorites
        /\ Done("CreateFavorite", result)
        /\ UNCHANGED <<users, categories, templates, generations>>
        /\ UNCHANGED shapeVars

DeleteFavorite(id) ==
    /\ favorites' = IF id \in DOMAIN favorites THEN Remove(favorites, id) ELSE favorites
    /\ Done("DeleteFavorite", IF id \in DOMAIN favorites THEN "ok" ELSE "NotFoundError")
    /\ UNCHANGED <<users, categories, templates, generations>>
    /\ UNCHANGED shapeVars

CreateGeneration(u, p) ==
    LET shapeOK == Valid(PromptGenerationCreate, p)
        data == PromptGenerationOf(p, u, Str(<<"1">>))
        result == IF shapeOK THEN InsertResult(PromptGeneration, generations, data)
                  ELSE "ValidationError"
    IN  /\ TotalRows < MaxRows
        /\ generations' = IF result = "ok"
                          THEN Put(generations,
                                   NewRow(PromptGeneration, generations, data))
                          ELSE generations
        /\ Done("CreateGeneration", result)
        /\ UNCHANGED <<users, categories, templates, favorites>>
        /\ UNCHANGED shapeVars

UpdateGeneration(id, p) ==
    LET result == UpdateResult(PromptGeneration, PromptGenerationUpdate,
                               generations, id, p)
    IN  /\ generations' = IF result = "ok"
                          THEN Put(generations,
                                   ApplyUpdate(generations[id],
                                               Build(PromptGenerationUpdate, p)))
                          ELSE generations
        /\ Done("UpdateGeneration", result)
        /\ UNCHANGED <<users, categories, templates, favorites>>
        /\ UNCHANGED shapeVars

Next ==
    \/ \E p \in StoreUserCreates : CreateUser(p)
    \/ \E id \in DOMAIN users, p \in StoreUserUpdates : UpdateUser(id, p)
    \/ \E p \in StoreCategoryCreates : CreateCategory(p)
    \/ \E id \in DOMAIN categories, p \in StoreCategoryUpdates : UpdateCategory(id, p)
    \/ \E u \in IdsOf(users), p \in StoreTemplateCreates : CreateTemplate(u, p)
    \/ \E id \in DOMAIN templates, p \in StoreTemplateUpdates : UpdateTemplate(id, p)
    \/ \E u \in IdsOf(users), t \in IdsOf(templates) : CreateFavorite(u, t)
    \/ \E id \in DOMAIN favorites : DeleteFavorite(id)
    \/ \E u \in IdsOf(users), p \in StoreGenerationCreates : CreateGeneration(u, p)
    \/ \E id \in DOMAIN generations, p \in StoreGenerationUpdates : UpdateGeneration(id, p)

Spec == Init /\ [][Next]_vars

----------------------------------------------------------------------------
(* Properties of the shapes, checked under SpecShapes *)

Constructed(name) == shape = name /\ outcome # NotConstructed

ErrorFields(o) == IF o.ok THEN {} ELSE o.fields

C1_username_pattern == <<Plus(Lower \cup Upper \cup Digit \cup {"_", "-"})>>

C1_email_pattern ==
    <<Plus(Lower \cup Upper \cup Digit \cup {"_", ".", "+", "-"}), One({"@"}),
      Plus(Lower \cup Upper \cup Digit \cup {"-"}), One({"."}),
      Plus(Lower \cup Upper \cup Digit \cup {"-", "."})>>

C1_PatternsAndPassword ==
    /\ ReMatch(C1_username_pattern, payload.username.v)
    /\ ReMatch(C1_email_pattern, payload.email.v)
    /\ Len(payload.password.v) \in 8..100

\* C1 as stated: a UserCreate payload of four strings is accepted if and
\* only if the username matches its pattern, the email matches its pattern
\* and the password has 8 to 100 characters, nothing else deciding.
C1_Original ==
    Constructed("UserCreate") => (outcome.ok <=> C1_PatternsAndPassword)

\* C1 (amended): a UserCreate payload of four strings is accepted if and
\* only if the username matches its pattern and has at most 50 characters,
\* the email matches its pattern and has at most 255 characters, the
\* password has 8 to 100 characters and the full name at most 200.
C1_LengthsToo ==
    Constructed("UserCreate") =>
        (outcome.ok <=> /\ C1_PatternsAndPassword
                        /\ Len(payload.username.v) <= 50
                        /\ Len(payload.email.v) <= 255
                        /\ Len(payload.full_name.v) <= 200)

\* the spec's scenario: alice's registration is accepted as given
C1_AliceAccepted ==
    /\ Constructed("UserCreate")
    /\ payload = [username |-> Str(alice), email |-> Str(alice_email),
                  password |-> Str(longenough1), full_name |-> Str(Alice_A)]
    /\ outcome.ok
    /\ outcome.obj.data = payload

\* C5: a PromptTemplateSearch with limit outside [1,100] or offset below 0
\* is rejected; one with limit in [1,100] and offset >= 0 (given or left
\* out) gets no error on limit or offset and is accepted when its query is
\* not longer than its 200 characters; a limit or offset left out is 20, 0.
C5_Pagination ==
    Constructed("PromptTemplateSearch") =>
        LET limGiven == "limit" \in DOMAIN payload
            offGiven == "offset" \in DOMAIN payload
            limBad == limGiven /\ (payload.limit.v < 1 \/ payload.limit.v > 100)
            offBad == offGiven /\ payload.offset.v < 0
            queryOK == \/ "query" \notin DOMAIN payload
                       \/ payload.query = None
                       \/ Len(payload.query.v) <= 200
        IN  /\ (limBad \/ offBad) => ~outcome.ok
            /\ limBad <=> "limit" \in ErrorFields(outcome)
            /\ offBad <=> "offset" \in ErrorFields(outcome)
            /\ (~limBad /\ ~offBad /\ queryOK) => outcome.ok
            /\ (outcome.ok /\ ~limGiven) => outcome.obj.data.limit = IntV(20)
            /\ (outcome.ok /\ ~offGiven) => outcome.obj.data.offset = IntV(0)
            /\ (outcome.ok /\ limGiven) => outcome.obj.data.limit = payload.limit
            /\ (outcome.ok /\ offGiven) => outcome.obj.data.offset = payload.offset

\* a search with limit 101 and nothing else is rejected for its limit
C5_Limit101Rejected ==
    /\ Constructed("PromptTemplateSearch")
    /\ payload = [limit |-> IntV(101)]
    /\ ~outcome.ok
    /\ outcome.fields = {"limit"}

C8_Pairs ==
    { <<"UserCreate", "User">>, <<"CategoryCreate", "Category">>,
      <<"PromptTemplateCreate", "PromptTemplate">>,
      <<"PromptGenerationCreate", "PromptGeneration">> }

C8_Shared(pr) == DOMAIN ClassOf(pr[1]) \cap DOMAIN ClassOf(pr[2])

\* C8: for every field a create shape shares with its entity, the create
\* shape has a default exactly when the entity has one, the same one, and
\* whenever either class is constructed from a payload, the shared fields
\* it gets wrong are the ones the other class gets wrong for that payload.
C8_SameConstraints ==
    \A pr \in C8_Pairs :
        LET create == ClassOf(pr[1])
            entity == ClassOf(pr[2])
        IN  /\ \A f \in C8_Shared(pr) :
                  /\ HasDefault(create[f]) <=> HasDefault(entity[f])
                  /\ HasDefault(create[f]) => DefaultOf(create[f]) = DefaultOf(entity[f])
            /\ Constructed(pr[1]) =>
                  ErrorFields(outcome) \cap C8_Shared(pr)
                      = Errors(entity, payload) \cap C8_Shared(pr)
            /\ Constructed(pr[2]) =>
                  ErrorFields(outcome) \cap C8_Shared(pr)
                      = Errors(create, payload) \cap C8_Shared(pr)

\* a CategoryCreate whose name has 100 characters is accepted, as the
\* Category of that name is
C8_LongestNameAccepted ==
    /\ Constructed("CategoryCreate")
    /\ "name" \in DOMAIN payload
    /\ payload.name = Chars(100)
    /\ outcome.ok
    /\ "name" \notin Errors(Category, payload)

C9_HexDigit == Digit \cup {"A", "B", "C", "D", "E", "F", "a", "b", "c", "d", "e", "f"}

C9_IsHexColor(s) ==
    /\ Len(s) = 7
    /\ s[1] = "#"
    /\ \A i \in 2..7 : s[i] \in C9_HexDigit

\* C9: a color string given to Category, CategoryCreate or CategoryUpdate is
\* accepted exactly when it is '#' and six hexadecimal digits of either
\* case; a Category or CategoryCreate given no color has color #3B82F6.
C9_ColorRule ==
    \A name \in {"Category", "CategoryCreate", "CategoryUpdate"} :
        Constructed(name) =>
            /\ ("color" \in DOMAIN payload /\ payload.color.t = "str") =>
                  ("color" \notin ErrorFields(outcome) <=> C9_IsHexColor(payload.color.v))
            /\ (name # "CategoryUpdate" /\ "color" \notin DOMAIN payload /\ outcome.ok) =>
                  outcome.obj.data.color = Str(<<"#", "3", "B", "8", "2", "F", "6">>)

\* the spec's scenario: "blue" is rejected where "#3b82F6" would pass
C9_BlueRejected ==
    /\ Constructed("CategoryCreate")
    /\ payload = [name |-> Str(<<"w", "o", "r", "k">>), color |-> Str(blue)]
    /\ ~outcome.ok
    /\ outcome.fields = {"color"}
    /\ Valid(CategoryCreate, [payload EXCEPT !.color = Str(color_3b82F6)])

----------------------------------------------------------------------------
(* Properties of the store, checked under Spec *)

\* a step that leaves every table but one as it was
OnlyUsers == UNCHANGED <<categories, templates, favorites, generations>>
OnlyCategories == UNCHANGED <<users, templates, favorites, generations>>
OnlyTemplates == UNCHANGED <<users, categories, favorites, generations>>
OnlyGenerations == UNCHANGED <<users, categories, templates, favorites>>

C2_Unique ==
    /\ \A i, j \in DOMAIN users :
          i # j => /\ users[i].username # users[j].username
                   /\ users[i].email # users[j].email
    /\ \A i, j \in DOMAIN categories :
          i # j => categories[i].name # categories[j].name

C2_DuplicateRejected ==
    /\ \A p \in StoreUserCreates :
          ( /\ OnlyUsers
            /\ \E i \in DOMAIN users : \/ users[i].username = p.username
                                       \/ users[i].email = p.email
            /\ Valid(UserCreate, p)
            /\ CreateUser(p) )
          => (last' = "ConflictError" /\ users' = users)
    /\ \A id \in DOMAIN users : \A p \in StoreUserUpdates :
          ( /\ OnlyUsers
            /\ "email" \in DOMAIN p
            /\ \E j \in DOMAIN users \ {id} : users[j].email = p.email
            /\ Valid(UserUpdate, p)
            /\ UpdateUser(id, p) )
          => (last' = "ConflictError" /\ users' = users)
    /\ \A p \in StoreCategoryCreates :
          ( /\ OnlyCategories
            /\ \E i \in DOMAIN categories : categories[i].name = p.name
            /\ Valid(CategoryCreate, p)
            /\ CreateCategory(p) )
          => (last' = "ConflictError" /\ categories' = categories)
    /\ \A id \in DOMAIN categories : \A p \in StoreCategoryUpdates :
          ( /\ OnlyCategories
            /\ "name" \in DOMAIN p
            /\ \E j \in DOMAIN categories \ {id} : categories[j].name = p.name
            /\ Valid(CategoryUpdate, p)
            /\ UpdateCategory(id, p) )
          => (last' = "ConflictError" /\ categories' = categories)

\* C2: no two users share a username (compared character by character, so
\* "alice" and "Alice" differ) or an email, no two categories share a name,
\* and a valid creation or update that would repeat such a value of
\* another row ends in a ConflictError and changes nothing.
C2_UniqueKept == []C2_Unique /\ [][C2_DuplicateRejected]_vars

\* alice and Alice are both registered, and a further write was refused as
\* a conflict
C2_ConflictSeen ==
    /\ \E i, j \in DOMAIN users : /\ users[i].username = Str(alice)
                                  /\ users[j].username = Str(Alice)
    /\ last = "ConflictError"

C3_References ==
    \A t \in DOMAIN templates :
        /\ templates[t].user_id.v \in DOMAIN users
        /\ templates[t].category_id # None =>
              templates[t].category_id.v \in DOMAIN categories

C3_DanglingRejected ==
    /\ \A u \in IdsOf(users) : \A p \in StoreTemplateCreates :
          ( /\ OnlyTemplates
            /\ \/ u \notin DOMAIN users
               \/ /\ "category_id" \in DOMAIN p
                  /\ p.category_id # None
                  /\ p.category_id.v \notin DOMAIN categories
            /\ Valid(PromptTemplateCreate, p)
            /\ CreateTemplate(u, p) )
          => (last' = "ReferenceError" /\ templates' = templates)
    /\ \A id \in DOMAIN templates : \A p \in StoreTemplateUpdates :
          ( /\ OnlyTemplates
            /\ "category_id" \in DOMAIN p
            /\ p.category_id # None
            /\ p.category_id.v \notin DOMAIN categories
            /\ Valid(PromptTemplateUpdate, p)
            /\ UpdateTemplate(id, p) )
          => (last' = "ReferenceError" /\ templates' = templates)

\* C3: every template's user_id is the id of a user and its category_id,
\* when set, the id of a category; a valid template creation that names no
\* existing user or category, and a valid update to a category_id of no
\* category, end in a ReferenceError and change nothing.
C3_ReferencesKept == []C3_References /\ [][C3_DanglingRejected]_vars

\* a template in a category exists, and a later write was refused for its
\* reference
C3_ReferenceErrorSeen ==
    /\ \E t \in DOMAIN templates : templates[t].category_id = IntV(1)
    /\ last = "ReferenceError"

\* row number id of the table is the old row with the fields of payload p
\* that the update class declares overwritten, and no other row changed
C4_Applied(old, new, upd, id, p) ==
    /\ DOMAIN new = DOMAIN old
    /\ \A f \in DOMAIN old[id] :
          new[id][f] = IF f \in DOMAIN p \cap DOMAIN upd THEN p[f] ELSE old[id][f]
    /\ \A i \in DOMAIN old \ {id} : new[i] = old[i]

C4_UpdateStep ==
    /\ \A id \in DOMAIN users : \A p \in StoreUserUpdates :
          (OnlyUsers /\ last' = "ok" /\ UpdateUser(id, p))
          => C4_Applied(users, users', UserUpdate, id, p)
    /\ \A id \in DOMAIN categories : \A p \in StoreCategoryUpdates :
          (OnlyCategories /\ last' = "ok" /\ UpdateCategory(id, p))
          => C4_Applied(categories, categories', CategoryUpdate, id, p)
    /\ \A id \in DOMAIN templates : \A p \in StoreTemplateUpdates :
          (OnlyTemplates /\ last' = "ok" /\ UpdateTemplate(id, p))
          => C4_Applied(templates, templates', PromptTemplateUpdate, id, p)
    /\ \A id \in DOMAIN generations : \A p \in StoreGenerationUpdates :
          (OnlyGenerations /\ last' = "ok" /\ UpdateGeneration(id, p))
          => C4_Applied(generations, generations', PromptGenerationUpdate, id, p)

\* C4: an update the store accepts sets each field its payload gives (of
\* those the update shape declares), an explicit None or empty string
\* included, to the value given, and leaves every other field of the row
\* and every other row as they were.
C4_ExactlyFieldsGiven == [][C4_UpdateStep]_vars

\* the spec's scenario: a generation completed by status, openai_response
\* and completed_at alone, every other field as it was created
C4_CompletedOnly ==
    /\ last = "ok"
    /\ \E g \in DOMAIN generations :
          generations[g] =
              [NewRow(PromptGeneration, NoRows,
                      PromptGenerationOf([prompt_template_id |-> IntV(1)], 1, Str(<<"1">>)))
                  EXCEPT !.id = IntV(g),
                         !.status = Str(completed),
                         !.openai_response = Str(<<".", ".", ".">>),
                         !.completed_at = DateTime(1)]

\* C6 as stated: the store holds at most one UserFavorite row for each
\* pair of user_id and prompt_template_id.
C6_Original ==
    \A i, j \in DOMAIN favorites :
        i # j => \/ favorites[i].user_id # favorites[j].user_id
                 \/ favorites[i].prompt_template_id # favorites[j].prompt_template_id

C7_StatusStep ==
    \A g \in DOMAIN generations' :
        IF g \notin DOMAIN generations
        THEN generations'[g].status = Str(pending)
        ELSE generations'[g].status # generations[g].status =>
                /\ generations[g].status = Str(pending)
                /\ generations'[g].status \in {Str(completed), Str(failed)}

\* C7 as stated: a generation is created pending, and its status changes
\* only from pending to completed or from pending to failed.
C7_Original == [][C7_StatusStep]_vars

C10_Fixed(old, new, fields) ==
    \A i \in DOMAIN old :
        /\ i \in DOMAIN new
        /\ \A f \in fields : new[i][f] = old[i][f]

C10_OwnershipStep ==
    /\ C10_Fixed(templates, templates', {"id", "user_id", "usage_count", "created_at"})
    /\ C10_Fixed(generations, generations',
                 {"id", "user_id", "prompt_template_id", "created_at"})
    /\ DOMAIN PromptTemplateUpdate
          \cap {"id", "user_id", "usage_count", "created_at"} = {}
    /\ DOMAIN PromptGenerationUpdate
          \cap {"id", "user_id", "prompt_template_id", "created_at"} = {}

\* C10: no step changes a template's id, user_id, usage_count or created_at,
\* or a generation's id, user_id, prompt_template_id or created_at, an
\* update whose payload names these fields included: neither update shape
\* declares them.
C10_OwnershipFixed == [][C10_OwnershipStep]_vars

\* a generation of user 1 went through the update whose payload names
\* user_id 2 and prompt_template_id 2, with user 2 registered
C10_OwnerKept ==
    /\ 2 \in DOMAIN users
    /\ \E g \in DOMAIN generations :
          /\ generations[g].status = Str(<<"b", "o", "g", "u", "s">>)
          /\ generations[g].user_id = IntV(1)
          /\ generations[g].prompt_template_id = IntV(1)

====
